---- MODULE Spec2Model ----
(***************************************************************************)
(* Metering ingestion and invoice computation engine of the electricity    *)
(* billing service (FastAPI + SQLAlchemy on PostgreSQL).                    *)
(*                                                                         *)
(* The committed content of the database is the state: meritve (readings), *)
(* racuni (invoice headers), postavke (invoice line items).  Requests that *)
(* read the database and write to it later (create_meritev,                 *)
(* create_invoice) are run by concurrent callers, one step per storage     *)
(* access; the remaining handlers are one transaction each.                *)
(*                                                                         *)
(* Numbers are scaled integers: poraba_kwh in 1e-4 kWh (DECIMAL(10,4)),    *)
(* cena in 1e-5 EUR/kWh (DECIMAL(8,5)), amounts in cents (DECIMAL(10,2)).  *)
(* Timestamps are half-day slots; a date is compared as its midnight.      *)
(***************************************************************************)
EXTENDS Integers, FiniteSets, Sequences, TLC

\* ------------------------------------------------------------------ bounds
\* ids the meritve / racuni sequences may hand out in one run
MaxMeritve == 2
MaxRacuni == 2
MaxStranke == 2
MaxLokacije == 3

\* ------------------------------------------------------------- input sets
Procs == {1, 2}
\* Lokacija rows present (owned by Stranka 1); 3 is an id with no row
Lokacije == {1, 2}
LokacijaIds == {1, 2, 3}
StrankaIds == {1, 2}
\* dates 0 and 1; timestamps: midnight of day 0, midnight of day 1, noon
\* of day 1
Datumi == {0, 1}
Casi == {0, 2, 3}
Leta == {2025, 2026}
\* <<poraba_kwh, dinamicna_cena_eur_kwh>> as a request carries them, in
\* 1e-5 kWh and 1e-6 EUR/kWh (one digit more than the columns keep):
\* 2 kWh at 0.15 EUR (0.30) and 1 kWh at 0.125 EUR (a half-cent product)
VA == <<200000, 150000>>
VC == <<100000, 125000>>
VeljavneVrednosti == {VA, VC}
\* 1 kWh at 0.135 EUR: the other half-cent product, in batches only
VD == <<100000, 135000>>
\* a negative consumption, a zero price
VNeg == <<-100000, 150000>>
VZero == <<100000, 0>>
\* 1 kWh at 0.000004 EUR: a positive price below the scale of the column
VMajhna == <<100000, 4>>
NeveljavneVrednosti == {VNeg, VZero}
\* 1 kWh at 1000 EUR: a positive price the column cannot hold
VPrevelika == <<100000, 1000000000>>
Vrednosti == VeljavneVrednosti \cup NeveljavneVrednosti

\* a pandas NaT in the timestamp column
NaT == -1
Zapis(lokacija_id, casovni_zig, vrednost) ==
    [lokacija_id |-> lokacija_id, casovni_zig |-> casovni_zig, vrednost |-> vrednost]
\* request bodies of POST /meritve/bulk
BulkBatches ==
    {<<Zapis(1, 0, VC)>>,
     <<Zapis(1, 0, VC), Zapis(1, 2, VC)>>,
     <<Zapis(1, 2, VA), Zapis(1, 2, VC)>>,
     <<Zapis(1, 0, VC), Zapis(2, 0, VD)>>,
     <<Zapis(1, 3, VNeg), Zapis(1, 0, VA)>>,
     <<Zapis(1, 0, VC), Zapis(1, 3, VNeg), Zapis(1, 2, VA)>>,
     <<Zapis(2, 0, VZero)>>,
     <<Zapis(2, 2, VMajhna)>>,
     <<Zapis(3, 0, VC)>>}
\* parsed files of POST /admin/import-csv (the rows carry no lokacija_id)
CsvFiles ==
    {<<>>,
     <<Zapis(0, 0, VC)>>,
     <<Zapis(0, 0, VA), Zapis(0, 2, VC)>>,
     <<Zapis(0, 3, VC), Zapis(0, 3, VC)>>,
     <<Zapis(0, 0, VC), Zapis(0, 2, VNeg)>>,
     <<Zapis(0, 2, VMajhna)>>,
     <<Zapis(0, NaT, VC), Zapis(0, 0, VZero), Zapis(0, 3, VA)>>}

\* the requests the callers send; lokacija_id 3 has no row
InvoiceRequests == (Lokacije \X Datumi \X Datumi) \cup {<<3, 0, 1>>}
MeritevRequests ==
    (Lokacije \X Casi \X VeljavneVrednosti)
    \cup {<<1, 0, VNeg>>, <<1, 0, VZero>>, <<3, 0, VC>>, <<2, 3, VMajhna>>}
CsvRequests ==
    (CsvFiles \X Lokacije \X BOOLEAN) \cup {<<<<Zapis(0, 0, VC)>>, 3, FALSE>>}
\* DELETE /meritve/bulk/location/{id}?confirm=
DeleteAllRequests == (Lokacije \X {TRUE}) \cup {<<1, FALSE>>, <<3, TRUE>>}

VARIABLES
    meritve,        \* committed Meritev rows
    racuni,         \* committed Racun rows
    postavke,       \* committed PostavkaRacuna rows
    nextMeritevId,  \* meritve.id sequence
    nextRacunId,    \* racuni.id sequence
    leto,           \* datetime.now().year
    proc,           \* per caller: position and locals of its request
    log,            \* stevilka_racuna of the committed invoices, in commit order
    odgovor,        \* the last response a handler returned
    stranke,        \* ids of the committed Stranka rows
    lokacije,       \* committed Lokacija rows
    nextStrankaId,  \* stranke.id sequence
    nextLokacijaId  \* lokacije.id sequence

\* the owners: customers and their locations
lastnistvo == <<stranke, lokacije, nextStrankaId, nextLokacijaId>>

vars == <<meritve, racuni, postavke, nextMeritevId, nextRacunId, leto, proc, log,
          odgovor, stranke, lokacije, nextStrankaId, nextLokacijaId>>

\* ---------------------------------------------------------------- decimal
\* Decimal.quantize under the default context (ROUND_HALF_EVEN): the value
\* x, given in units u, in units of d*u
\* rounding half up instead
Quantize_half_up(x, d) ==
    LET q == x \div d
        r == x % d
    IN  IF 2 * r < d THEN q ELSE q + 1

Quantize(x, d) ==
    LET q == x \div d
        r == x % d
    IN  IF 2 * r < d THEN q
        ELSE IF 2 * r > d THEN q + 1
        ELSE IF q % 2 = 0 THEN q ELSE q + 1

\* 1e-4 kWh * 1e-5 EUR/kWh = 1e-9 EUR; a cent is 1e7 of them
CentDivisor == 10000000

RECURSIVE SumZnesek(_)
SumZnesek(S) ==
    IF S = {} THEN 0
    ELSE LET x == CHOOSE y \in S : TRUE IN x.znesek + SumZnesek(S \ {x})

\* a date in a comparison with a TIMESTAMP column is its midnight
Polnoc(d) == d + d

\* ----------------------------------------------------- calculation_service
\* one line item of calculate_invoice_amount
LineItem(m) ==
    [meritev_id |-> m.id,
     poraba_kwh |-> m.poraba_kwh,
     cena_eur_kwh |-> m.dinamicna_cena_eur_kwh,
     znesek |-> Quantize(m.poraba_kwh * m.dinamicna_cena_eur_kwh, CentDivisor)]

\* a period open at its end
MeritveVObdobju_open_end(lokacija_id, datum_od, datum_do) ==
    {m \in meritve : /\ m.lokacija_id = lokacija_id
                     /\ m.casovni_zig >= Polnoc(datum_od)
                     /\ m.casovni_zig < Polnoc(datum_do)}

\* a selection that leaves out the readings some invoice already bills
MeritveVObdobju_unbilled(lokacija_id, datum_od, datum_do) ==
    {m \in meritve : /\ m.lokacija_id = lokacija_id
                     /\ m.casovni_zig >= Polnoc(datum_od)
                     /\ m.casovni_zig <= Polnoc(datum_do)
                     /\ \A po \in postavke : po.meritev_id # m.id}

MeritveVObdobju(lokacija_id, datum_od, datum_do) ==
    {m \in meritve : /\ m.lokacija_id = lokacija_id
                     /\ m.casovni_zig >= Polnoc(datum_od)
                     /\ m.casovni_zig <= Polnoc(datum_do)}

LineItems(lokacija_id, datum_od, datum_do) ==
    {LineItem(m) : m \in MeritveVObdobju(lokacija_id, datum_od, datum_do)}

RECURSIVE SumRaw(_)
SumRaw(S) ==
    IF S = {} THEN 0
    ELSE LET x == CHOOSE y \in S : TRUE
         IN  x.poraba_kwh * x.cena_eur_kwh + SumRaw(S \ {x})

\* the products summed and rounded once instead
TotalAmount_raw(items) == Quantize(SumRaw(items), CentDivisor)

\* total_amount: the rounded amounts summed, then quantized to cents
TotalAmount(items) == Quantize(SumZnesek(items), 1)

\* ------------------------------------------------------- invoice numbering
\* the text of a number: f"{current_year}-{count + 1:06d}", as the
\* sequence of its characters
DigitChars == <<"0", "1", "2", "3", "4", "5", "6", "7", "8", "9">>

\* f"{n}" for n >= 0
RECURSIVE Digits(_)
Digits(n) ==
    IF n < 10 THEN <<DigitChars[n + 1]>>
    ELSE Digits(n \div 10) \o <<DigitChars[(n % 10) + 1]>>

\* the format specification 0{w}d: zeros on the left up to the width w
RECURSIVE ZeroPad(_, _)
ZeroPad(text, w) == IF Len(text) >= w THEN text ELSE ZeroPad(<<"0">> \o text, w)

\* a width of five
StevilkaText_pad5(stevilka) ==
    Digits(stevilka[1]) \o <<"-">> \o ZeroPad(Digits(stevilka[2]), 5)

StevilkaText(stevilka) ==
    Digits(stevilka[1]) \o <<"-">> \o ZeroPad(Digits(stevilka[2]), 6)

\* Racun.stevilka_racuna.like(f"{current_year}-%")
LikeLeto(text, year) ==
    LET prefix == Digits(year) \o <<"-">>
    IN  Len(text) >= Len(prefix) /\ SubSeq(text, 1, Len(prefix)) = prefix

\* generate_invoice_number: count of the invoices of the current year + 1,
\* kept as <<year, sequence>>; StevilkaText is the text stored
\* a number that does not follow the count
generate_invoice_number_first == <<leto, 1>>

generate_invoice_number ==
    <<leto, Cardinality({r \in racuni : r.stevilka_racuna[1] = leto}) + 1>>

\* ------------------------------------------------------------ the callers
Idle ==
    [pc |-> "idle", lokacija_id |-> 0,
     casovni_zig |-> 0, vrednost |-> <<0, 0>>, datum_od |-> 0, datum_do |-> 0,
     line_items |-> {}, total_amount |-> 0, stevilka |-> <<0, 0>>, racun_id |-> 0,
     stranka_id |-> 0]

Odgovor(op, status, n_ok, n_err) ==
    [op |-> op, status |-> status, n_ok |-> n_ok, n_err |-> n_err]

Init ==
    /\ meritve = {}
    /\ racuni = {}
    /\ postavke = {}
    /\ nextMeritevId = 1
    /\ nextRacunId = 1
    /\ leto = CHOOSE y \in Leta : \A z \in Leta : y <= z
    /\ proc = [p \in Procs |-> Idle]
    /\ log = <<>>
    /\ odgovor = Odgovor("none", "none", 0, 0)
    /\ stranke = {1}
    /\ lokacije = {[id |-> l, stranka_id |-> 1] : l \in Lokacije}
    /\ nextStrankaId = 2
    /\ nextLokacijaId = Cardinality(Lokacije) + 1

\* ------------------------------------------------------- storage (models.py)
\* "db.query(Lokacija).filter(Lokacija.id == lokacija_id).first()"
LokacijaObstaja(lokacija_id) == \E l \in lokacije : l.id = lokacija_id

\* meritve.lokacija_id and racuni.lokacija_id reference lokacije.id: an
\* INSERT for a Lokacija without a committed row is rejected
\* columns without the foreign key
LokacijaFkOk_none(lokacija_id) == TRUE

LokacijaFkOk(lokacija_id) == \E l \in lokacije : l.id = lokacija_id

\* lokacije.stranka_id references stranke.id
StrankaFkOk(stranka_id) == stranka_id \in stranke

\* a DELETE of a Lokacija row that a reading or an invoice references is
\* rejected
LokacijaReferenced(lokacija_id) ==
    \/ \E m \in meritve : m.lokacija_id = lokacija_id
    \/ \E r \in racuni : r.lokacija_id = lokacija_id

\* a DELETE of a Stranka row that a Lokacija references is rejected
StrankaReferenced(stranka_id) ==
    \E l \in lokacije : l.stranka_id = stranka_id

\* Racun.stevilka_racuna is unique=True: an INSERT of a number a committed
\* row carries is rejected
\* a column without the unique constraint
UniqueViolation_none(stevilka) == FALSE

UniqueViolation(stevilka) ==
    \E r \in racuni : r.stevilka_racuna = stevilka

\* an INSERT of a number another open transaction has inserted waits for
\* that transaction to end (unique index, read committed)
\* an INSERT that does not wait
InsertBlocked_never(p) == FALSE

InsertBlocked(p) ==
    \E q \in Procs \ {p} : /\ proc[q].pc = "ci_commit"
                           /\ proc[q].stevilka = proc[p].stevilka

\* postavke_racuna.meritev_id references meritve.id
MeritevFkOk(items) ==
    \A it \in items : \E m \in meritve : m.id = it.meritev_id

\* Racun.postavke has no delete cascade: deleting the parent sets
\* racun_id of its line items to NULL, and racun_id is nullable=False
\* a delete the storage lets through
DeleteRacunRejected_never(r) == FALSE

DeleteRacunRejected(r) ==
    \E po \in postavke : po.racun_id = r.id

\* ------------------------------------------------------ InvoiceService
\* "if not line_items: raise ValueError"
\* no check of the line items
IsEmptyPeriod_never(items) == FALSE

IsEmptyPeriod(items) == items = {}

RacunRow(p) ==
    [id |-> proc[p].racun_id,
     lokacija_id |-> proc[p].lokacija_id,
     stevilka_racuna |-> proc[p].stevilka,
     datum_od |-> proc[p].datum_od,
     datum_do |-> proc[p].datum_do,
     skupni_znesek |-> proc[p].total_amount,
     status |-> "USTVARJEN",
     pdf_pot |-> "NULL"]

PostavkaRows(p) ==
    {[racun_id |-> proc[p].racun_id,
      meritev_id |-> it.meritev_id,
      poraba_kwh |-> it.poraba_kwh,
      cena_eur_kwh |-> it.cena_eur_kwh,
      znesek |-> it.znesek] : it \in proc[p].line_items}

\* what db.commit() of create_invoice makes durable: the header and its
\* line items, or nothing when the flush of the line items fails
\* a header that stays when the line items fail
CommitInvoice_partial(p) ==
    IF MeritevFkOk(proc[p].line_items)
    THEN [ok |-> TRUE, racuni |-> {RacunRow(p)}, postavke |-> PostavkaRows(p)]
    ELSE [ok |-> FALSE, racuni |-> {RacunRow(p)}, postavke |-> {}]

CommitInvoice(p) ==
    IF MeritevFkOk(proc[p].line_items)
    THEN [ok |-> TRUE, racuni |-> {RacunRow(p)}, postavke |-> PostavkaRows(p)]
    ELSE [ok |-> FALSE, racuni |-> {}, postavke |-> {}]

\* The callers are interchangeable: a new request is taken by the first
\* caller that is free
TakesRequest(p) ==
    /\ proc[p].pc = "idle"
    /\ \A q \in Procs : q < p => proc[q].pc # "idle"

\* ids the racuni sequence still has to hand out to requests under way
RacunIdsReserved ==
    Cardinality({q \in Procs : proc[q].pc = "ci_flush"})

\* generate_racun up to the flush of the header: the Lokacija check, the
\* calculation over the committed readings and the number from the
\* committed invoices.  The two reads are one step: the first reads only
\* meritve, the second only racuni.
create_invoice_calculate(p, lokacija_id, datum_od, datum_do) ==
    /\ TakesRequest(p)
    /\ nextRacunId + RacunIdsReserved <= MaxRacuni
    /\ LET items == LineItems(lokacija_id, datum_od, datum_do)
       IN  IF ~LokacijaObstaja(lokacija_id)
           THEN /\ odgovor' = Odgovor("create_invoice", "not_found", 0, 0)
                /\ UNCHANGED proc
           ELSE IF IsEmptyPeriod(items)
           THEN /\ odgovor' = Odgovor("create_invoice", "empty", 0, 0)
                /\ UNCHANGED proc
           ELSE /\ proc' = [proc EXCEPT ![p] =
                       [Idle EXCEPT !.pc = "ci_flush",
                                    !.lokacija_id = lokacija_id,
                                    !.datum_od = datum_od,
                                    !.datum_do = datum_do,
                                    !.line_items = items,
                                    !.total_amount = TotalAmount(items),
                                    !.stevilka = generate_invoice_number]]
                /\ UNCHANGED odgovor
    /\ UNCHANGED <<meritve, racuni, postavke, nextMeritevId, nextRacunId, leto, log>>
    /\ UNCHANGED lastnistvo

\* db.add(racun); db.flush(): the INSERT of the header
create_invoice_flush(p) ==
    /\ proc[p].pc = "ci_flush"
    /\ ~InsertBlocked(p)
    /\ nextRacunId' = nextRacunId + 1
    /\ IF UniqueViolation(proc[p].stevilka)
       THEN /\ proc' = [proc EXCEPT ![p] = Idle]
            /\ odgovor' = Odgovor("create_invoice", "conflict", 0, 0)
       ELSE IF ~LokacijaFkOk(proc[p].lokacija_id)
       THEN /\ proc' = [proc EXCEPT ![p] = Idle]
            /\ odgovor' = Odgovor("create_invoice", "error", 0, 0)
       ELSE /\ proc' = [proc EXCEPT ![p] =
                   [@ EXCEPT !.pc = "ci_commit", !.racun_id = nextRacunId]]
            /\ UNCHANGED odgovor
    /\ UNCHANGED <<meritve, racuni, postavke, nextMeritevId, leto, log>>
    /\ UNCHANGED lastnistvo

\* db.add_all(postavke); db.commit(), or db.rollback() in the handler
create_invoice_commit(p) ==
    /\ proc[p].pc = "ci_commit"
    /\ LET c == CommitInvoice(p)
       IN  /\ racuni' = racuni \cup c.racuni
           /\ postavke' = postavke \cup c.postavke
           /\ log' = IF c.ok THEN Append(log, proc[p].stevilka) ELSE log
           /\ odgovor' = Odgovor("create_invoice",
                                  IF c.ok THEN "ok" ELSE "error",
                                  Cardinality(c.racuni), 0)
    /\ proc' = [proc EXCEPT ![p] = Idle]
    /\ UNCHANGED <<meritve, nextMeritevId, nextRacunId, leto>>
    /\ UNCHANGED lastnistvo

\* DELETE /racuni/{id}: 404 without the row; otherwise db.delete(racun)
\* and db.commit(), whose flush the storage rejects for an invoice with
\* line items (the exception leaves the handler, the session is dropped)
delete_racun(racun_id) ==
    /\ IF \A r \in racuni : r.id # racun_id
       THEN /\ odgovor' = Odgovor("delete_racun", "not_found", 0, 0)
            /\ UNCHANGED racuni
       ELSE LET r == CHOOSE x \in racuni : x.id = racun_id
            IN  IF DeleteRacunRejected(r)
                THEN /\ odgovor' = Odgovor("delete_racun", "error", 0, 0)
                     /\ UNCHANGED racuni
                ELSE /\ odgovor' = Odgovor("delete_racun", "ok", 1, 0)
                     /\ racuni' = racuni \ {r}
    \* the flush sets racun_id of the line items of a deleted invoice to NULL (0)
    /\ postavke' = {IF po.racun_id = racun_id /\ racuni' # racuni
                    THEN [po EXCEPT !.racun_id = 0] ELSE po : po \in postavke}
    /\ UNCHANGED <<meritve, nextMeritevId, nextRacunId, leto, proc, log>>
    /\ UNCHANGED lastnistvo

\* ------------------------------------------------------------ statistics
RECURSIVE SumPoraba(_)
SumPoraba(S) ==
    IF S = {} THEN 0
    ELSE LET x == CHOOSE y \in S : TRUE
         IN  x.poraba_kwh + SumPoraba(S \ {x})

RECURSIVE SumCena(_)
SumCena(S) ==
    IF S = {} THEN 0
    ELSE LET x == CHOOSE y \in S : TRUE
         IN  x.dinamicna_cena_eur_kwh + SumCena(S \ {x})

\* CalculationService.calculate_statistics: the readings of the Lokacija
\* with datum_od <= casovni_zig <= datum_do, the dates compared as their
\* midnight; kWh in 1e-4, prices in 1e-5 EUR, the cost in cents
calculate_statistics(lokacija_id, datum_od, datum_do) ==
    LET izbrane == {m \in meritve : /\ m.lokacija_id = lokacija_id
                                    /\ m.casovni_zig >= Polnoc(datum_od)
                                    /\ m.casovni_zig <= Polnoc(datum_do)}
        cene == {m.dinamicna_cena_eur_kwh : m \in izbrane}
    IN  IF izbrane = {}
        THEN [skupna_poraba |-> 0, skupni_strosek |-> 0, povprecna_cena |-> 0,
              minimalna_cena |-> 0, maksimalna_cena |-> 0, st_meritev |-> 0]
        ELSE [skupna_poraba |-> SumPoraba(izbrane),
              skupni_strosek |-> Quantize(SumRaw({LineItem(m) : m \in izbrane}),
                                          CentDivisor),
              povprecna_cena |-> Quantize(SumCena(izbrane), Cardinality(izbrane)),
              minimalna_cena |-> CHOOSE c \in cene : \A d \in cene : c <= d,
              maksimalna_cena |-> CHOOSE c \in cene : \A d \in cene : c >= d,
              st_meritev |-> Cardinality(izbrane)]

\* GET /admin/statistics/{lokacija_id}?datum_od=&datum_do=
get_location_statistics(lokacija_id, datum_od, datum_do) ==
    /\ IF ~LokacijaObstaja(lokacija_id)
       THEN odgovor' = Odgovor("get_location_statistics", "not_found", 0, 0)
       ELSE LET stats == calculate_statistics(lokacija_id, datum_od, datum_do)
            IN  odgovor' = [op |-> "get_location_statistics", status |-> "ok",
                            n_ok |-> stats.st_meritev, n_err |-> 0,
                            statistike |-> stats]
    /\ UNCHANGED <<meritve, racuni, postavke, nextMeritevId, nextRacunId, leto,
                   proc, log>>
    /\ UNCHANGED lastnistvo

\* --------------------------------------------- documents and notification
\* get_racun_pdf, and generate_pdf up to the rendering: 404 without the
\* row; a row with pdf_pot is answered with that file; otherwise
\* generate_pdf loads the invoice and renders.  generate_pdf_background
\* enters generate_pdf the same way for the invoice just created, whose
\* pdf_pot is NULL.
generate_pdf_start(p, racun_id) ==
    /\ TakesRequest(p)
    /\ IF \A r \in racuni : r.id # racun_id
       THEN /\ odgovor' = Odgovor("generate_pdf", "not_found", 0, 0)
            /\ UNCHANGED proc
       ELSE LET r == CHOOSE x \in racuni : x.id = racun_id
            IN  IF r.pdf_pot # "NULL"
                THEN /\ odgovor' = Odgovor("generate_pdf", "ok", 0, 0)
                     /\ UNCHANGED proc
                ELSE /\ proc' = [proc EXCEPT ![p] =
                            [Idle EXCEPT !.pc = "gp_commit", !.racun_id = racun_id]]
                     /\ UNCHANGED odgovor
    /\ UNCHANGED <<meritve, racuni, postavke, nextMeritevId, nextRacunId, leto, log>>
    /\ UNCHANGED lastnistvo

\* the row generate_pdf commits: "racun.pdf_pot = pdf_path;
\* racun.status = 'GENERIRAN'; db.commit()"
\* a commit that also writes the total recalculated from the readings
PdfGenerated_recalculated(r) ==
    [r EXCEPT !.pdf_pot = "pdf", !.status = "GENERIRAN",
              !.skupni_znesek =
                  TotalAmount(LineItems(r.lokacija_id, r.datum_od, r.datum_do))]

PdfGenerated(r) == [r EXCEPT !.pdf_pot = "pdf", !.status = "GENERIRAN"]

\* the rest of generate_pdf: the template or WeasyPrint raises (rendered
\* is FALSE) and nothing is written, or the file is written and the row
\* updated
generate_pdf_commit(p, rendered) ==
    /\ proc[p].pc = "gp_commit"
    /\ IF rendered
       THEN /\ racuni' = {IF r.id = proc[p].racun_id THEN PdfGenerated(r) ELSE r :
                             r \in racuni}
            /\ odgovor' = Odgovor("generate_pdf", "ok", 1, 0)
       ELSE /\ UNCHANGED racuni
            /\ odgovor' = Odgovor("generate_pdf", "error", 0, 0)
    /\ proc' = [proc EXCEPT ![p] = Idle]
    /\ UNCHANGED <<meritve, postavke, nextMeritevId, nextRacunId, leto, log>>
    /\ UNCHANGED lastnistvo

\* "if not racun.pdf_pot"
\* no check of the document reference
PdfMissing_never(r) == FALSE

PdfMissing(r) == r.pdf_pot = "NULL"

\* send_invoice_email up to the SMTP call: the invoice, its PDF file,
\* the recipient and the SMTP settings are checked (ready is FALSE when
\* the file, the address or the settings are missing)
send_invoice_email_start(p, racun_id, ready) ==
    /\ TakesRequest(p)
    /\ IF \A r \in racuni : r.id # racun_id
       THEN /\ odgovor' = Odgovor("send_invoice_email", "not_found", 0, 0)
            /\ UNCHANGED proc
       ELSE LET r == CHOOSE x \in racuni : x.id = racun_id
            IN  IF PdfMissing(r) \/ ~ready
                THEN /\ odgovor' = Odgovor("send_invoice_email", "error", 0, 0)
                     /\ UNCHANGED proc
                ELSE /\ proc' = [proc EXCEPT ![p] =
                            [Idle EXCEPT !.pc = "se_commit", !.racun_id = racun_id]]
                     /\ UNCHANGED odgovor
    /\ UNCHANGED <<meritve, racuni, postavke, nextMeritevId, nextRacunId, leto, log>>
    /\ UNCHANGED lastnistvo

\* the status after the SMTP call: "racun.status = 'POSLAN'" is reached
\* only when aiosmtplib.send returned
\* a status set whatever the delivery
StatusAfterSend_always(r, delivered) == "POSLAN"

StatusAfterSend(r, delivered) == IF delivered THEN "POSLAN" ELSE r.status

\* "await aiosmtplib.send(...)", then the update of the status
send_invoice_email_commit(p, delivered) ==
    /\ proc[p].pc = "se_commit"
    /\ racuni' = {IF r.id = proc[p].racun_id
                  THEN [r EXCEPT !.status = StatusAfterSend(r, delivered)]
                  ELSE r : r \in racuni}
    /\ odgovor' = Odgovor("send_invoice_email",
                          IF delivered THEN "ok" ELSE "error",
                          IF delivered THEN 1 ELSE 0, 0)
    /\ proc' = [proc EXCEPT ![p] = Idle]
    /\ UNCHANGED <<meritve, postavke, nextMeritevId, nextRacunId, leto, log>>
    /\ UNCHANGED lastnistvo

\* ---------------------------------------- routers/stranke.py, lokacije.py
LokacijaIdsReserved ==
    Cardinality({q \in Procs : proc[q].pc = "cl_commit"})

\* POST /stranke/
create_stranka ==
    /\ nextStrankaId <= MaxStranke
    /\ stranke' = stranke \cup {nextStrankaId}
    /\ nextStrankaId' = nextStrankaId + 1
    /\ odgovor' = Odgovor("create_stranka", "ok", 1, 0)
    /\ UNCHANGED <<meritve, racuni, postavke, nextMeritevId, nextRacunId, leto,
                   proc, log, lokacije, nextLokacijaId>>

\* DELETE /stranke/{id} up to db.delete: 404 without the row, 400 while
\* stranka.lokacije is not empty
delete_stranka_check(p, stranka_id) ==
    /\ TakesRequest(p)
    /\ LET status == IF stranka_id \notin stranke THEN "not_found"
                     ELSE IF StrankaReferenced(stranka_id) THEN "in_use"
                     ELSE "pass"
       IN  IF status = "pass"
           THEN /\ proc' = [proc EXCEPT ![p] =
                       [Idle EXCEPT !.pc = "ds_commit", !.stranka_id = stranka_id]]
                /\ UNCHANGED odgovor
           ELSE /\ odgovor' = Odgovor("delete_stranka", status, 0, 0)
                /\ UNCHANGED proc
    /\ UNCHANGED <<meritve, racuni, postavke, nextMeritevId, nextRacunId, leto, log>>
    /\ UNCHANGED lastnistvo

\* db.delete(stranka); db.commit(): the DELETE is rejected when a
\* Lokacija references the row by now, and fails when the row is gone
delete_stranka_commit(p) ==
    /\ proc[p].pc = "ds_commit"
    /\ IF proc[p].stranka_id \notin stranke \/ StrankaReferenced(proc[p].stranka_id)
       THEN /\ UNCHANGED stranke
            /\ odgovor' = Odgovor("delete_stranka", "error", 0, 0)
       ELSE /\ stranke' = stranke \ {proc[p].stranka_id}
            /\ odgovor' = Odgovor("delete_stranka", "ok", 1, 0)
    /\ proc' = [proc EXCEPT ![p] = Idle]
    /\ UNCHANGED <<meritve, racuni, postavke, nextMeritevId, nextRacunId, leto, log,
                   lokacije, nextStrankaId, nextLokacijaId>>

\* POST /lokacije/ up to db.add: 404 without the Stranka (the request
\* carries no merilna_stevilka)
create_lokacija_check(p, stranka_id) ==
    /\ TakesRequest(p)
    /\ nextLokacijaId + LokacijaIdsReserved <= MaxLokacije
    /\ IF stranka_id \notin stranke
       THEN /\ odgovor' = Odgovor("create_lokacija", "not_found", 0, 0)
            /\ UNCHANGED proc
       ELSE /\ proc' = [proc EXCEPT ![p] =
                   [Idle EXCEPT !.pc = "cl_commit", !.stranka_id = stranka_id]]
            /\ UNCHANGED odgovor
    /\ UNCHANGED <<meritve, racuni, postavke, nextMeritevId, nextRacunId, leto, log>>
    /\ UNCHANGED lastnistvo

\* db.add(db_lokacija); db.commit()
create_lokacija_commit(p) ==
    /\ proc[p].pc = "cl_commit"
    /\ IF StrankaFkOk(proc[p].stranka_id)
       THEN /\ lokacije' = lokacije \cup
                   {[id |-> nextLokacijaId, stranka_id |-> proc[p].stranka_id]}
            /\ odgovor' = Odgovor("create_lokacija", "ok", 1, 0)
       ELSE /\ UNCHANGED lokacije
            /\ odgovor' = Odgovor("create_lokacija", "error", 0, 0)
    /\ nextLokacijaId' = nextLokacijaId + 1
    /\ proc' = [proc EXCEPT ![p] = Idle]
    /\ UNCHANGED <<meritve, racuni, postavke, nextMeritevId, nextRacunId, leto, log,
                   stranke, nextStrankaId>>

\* DELETE /lokacije/{id} up to db.delete: 404 without the row, 400 while
\* lokacija.meritve or lokacija.racuni is not empty
delete_lokacija_check(p, lokacija_id) ==
    /\ TakesRequest(p)
    /\ LET status == IF ~LokacijaObstaja(lokacija_id) THEN "not_found"
                     ELSE IF \E m \in meritve : m.lokacija_id = lokacija_id
                     THEN "in_use"
                     ELSE IF \E r \in racuni : r.lokacija_id = lokacija_id
                     THEN "in_use"
                     ELSE "pass"
       IN  IF status = "pass"
           THEN /\ proc' = [proc EXCEPT ![p] =
                       [Idle EXCEPT !.pc = "dl_commit", !.lokacija_id = lokacija_id]]
                /\ UNCHANGED odgovor
           ELSE /\ odgovor' = Odgovor("delete_lokacija", status, 0, 0)
                /\ UNCHANGED proc
    /\ UNCHANGED <<meritve, racuni, postavke, nextMeritevId, nextRacunId, leto, log>>
    /\ UNCHANGED lastnistvo

\* db.delete(lokacija); db.commit(): the DELETE is rejected when a
\* reading or an invoice references the row by now, and fails when the
\* row is gone
delete_lokacija_commit(p) ==
    /\ proc[p].pc = "dl_commit"
    /\ IF \/ ~LokacijaObstaja(proc[p].lokacija_id)
          \/ LokacijaReferenced(proc[p].lokacija_id)
       THEN /\ UNCHANGED lokacije
            /\ odgovor' = Odgovor("delete_lokacija", "error", 0, 0)
       ELSE /\ lokacije' = {l \in lokacije : l.id # proc[p].lokacija_id}
            /\ odgovor' = Odgovor("delete_lokacija", "ok", 1, 0)
    /\ proc' = [proc EXCEPT ![p] = Idle]
    /\ UNCHANGED <<meritve, racuni, postavke, nextMeritevId, nextRacunId, leto, log,
                   stranke, nextStrankaId, nextLokacijaId>>

\* ------------------------------------------------------ routers/meritve.py
\* no existence check
Existing_never(lokacija_id, casovni_zig) == FALSE

Existing(lokacija_id, casovni_zig) ==
    \E m \in meritve : /\ m.lokacija_id = lokacija_id
                       /\ m.casovni_zig = casovni_zig

\* a NUMERIC(p, s) column rounds the value it is given to its scale, a
\* half away from zero: x in units u, kept in units d*u
StoreNumeric(x, d) ==
    IF x >= 0 THEN (2 * x + d) \div (2 * d)
    ELSE 0 - ((2 * (0 - x) + d) \div (2 * d))

\* DECIMAL(8, 5) holds values below 1000: the INSERT of a price that
\* rounds to 1000.00000 or more raises "numeric field overflow".  (The
\* bound of DECIMAL(10, 4), 10^6 kWh, is beyond the consumptions the
\* requests here carry.)
NumericOverflow(vrednost) == StoreNumeric(vrednost[2], 10) >= 100000000

\* the rows of an INSERT the sequence has numbered when the statement
\* ends: all of them, or those up to the first row that overflows
RECURSIVE IdsTaken(_, _)
IdsTaken(zapisi, i) ==
    IF i > Len(zapisi) THEN Len(zapisi)
    ELSE IF NumericOverflow(zapisi[i].vrednost) THEN i
    ELSE IdsTaken(zapisi, i + 1)

InsertRejected(zapisi) ==
    \E i \in 1..Len(zapisi) : NumericOverflow(zapisi[i].vrednost)

\* the row the INSERT makes of a record: poraba_kwh DECIMAL(10, 4) in
\* 1e-4 kWh, dinamicna_cena_eur_kwh DECIMAL(8, 5) in 1e-5 EUR/kWh
MeritevRow(id, lokacija_id, casovni_zig, vrednost) ==
    [id |-> id, lokacija_id |-> lokacija_id, casovni_zig |-> casovni_zig,
     poraba_kwh |-> StoreNumeric(vrednost[1], 10),
     dinamicna_cena_eur_kwh |-> StoreNumeric(vrednost[2], 10)]

MeritevIdsReserved ==
    Cardinality({q \in Procs : proc[q].pc = "cm_commit"})

\* POST /meritve/ up to db.add: the Lokacija check, the existence check
\* and the validation of the values
create_meritev_check(p, lokacija_id, casovni_zig, vrednost) ==
    /\ TakesRequest(p)
    /\ nextMeritevId + MeritevIdsReserved <= MaxMeritve
    /\ LET status == IF ~LokacijaObstaja(lokacija_id) THEN "not_found"
                     ELSE IF Existing(lokacija_id, casovni_zig) THEN "duplicate"
                     ELSE IF vrednost[1] < 0 THEN "invalid_poraba"
                     ELSE IF vrednost[2] <= 0 THEN "invalid_cena"
                     ELSE "pass"
       IN  IF status = "pass"
           THEN /\ proc' = [proc EXCEPT ![p] =
                       [Idle EXCEPT !.pc = "cm_commit",
                                    !.lokacija_id = lokacija_id,
                                    !.casovni_zig = casovni_zig,
                                    !.vrednost = vrednost]]
                /\ UNCHANGED odgovor
           ELSE /\ odgovor' = Odgovor("create_meritev", status, 0, 0)
                /\ UNCHANGED proc
    /\ UNCHANGED <<meritve, racuni, postavke, nextMeritevId, nextRacunId, leto, log>>
    /\ UNCHANGED lastnistvo

\* db.add(db_meritev); db.commit(): the table has no unique constraint
\* on (lokacija_id, casovni_zig), the INSERT succeeds while the Lokacija
\* row is there and the values fit their columns; otherwise the handler
\* rolls back and answers 400
create_meritev_commit(p) ==
    /\ proc[p].pc = "cm_commit"
    /\ IF LokacijaFkOk(proc[p].lokacija_id) /\ ~NumericOverflow(proc[p].vrednost)
       THEN /\ meritve' = meritve \cup
                   {MeritevRow(nextMeritevId, proc[p].lokacija_id,
                               proc[p].casovni_zig, proc[p].vrednost)}
            /\ odgovor' = Odgovor("create_meritev", "ok", 1, 0)
       ELSE /\ UNCHANGED meritve
            /\ odgovor' = Odgovor("create_meritev", "error", 0, 0)
    /\ nextMeritevId' = nextMeritevId + 1
    /\ proc' = [proc EXCEPT ![p] = Idle]
    /\ UNCHANGED <<racuni, postavke, nextRacunId, leto, log>>
    /\ UNCHANGED lastnistvo

\* DELETE /meritve/{id}
delete_meritev(meritev_id) ==
    /\ IF \A m \in meritve : m.id # meritev_id
       THEN /\ odgovor' = Odgovor("delete_meritev", "not_found", 0, 0)
            /\ UNCHANGED meritve
       ELSE IF \E po \in postavke : po.meritev_id = meritev_id
       THEN /\ odgovor' = Odgovor("delete_meritev", "in_use", 0, 0)
            /\ UNCHANGED meritve
       ELSE /\ odgovor' = Odgovor("delete_meritev", "ok", 1, 0)
            /\ meritve' = {m \in meritve : m.id # meritev_id}
    /\ UNCHANGED <<racuni, postavke, nextMeritevId, nextRacunId, leto, proc, log>>
    /\ UNCHANGED lastnistvo

\* rows of a batch as Meritev rows with the next ids of the sequence
\* a table that keeps one row per Lokacija and timestamp
NewRows_one_per_key(zapisi, id) ==
    {MeritevRow(id + i - 1, zapisi[i].lokacija_id, zapisi[i].casovni_zig,
                zapisi[i].vrednost) :
        i \in {k \in 1..Len(zapisi) :
                  \A j \in 1..(k - 1) :
                     \/ zapisi[j].lokacija_id # zapisi[k].lokacija_id
                     \/ zapisi[j].casovni_zig # zapisi[k].casovni_zig}}

NewRows(zapisi, id) ==
    {MeritevRow(id + i - 1, zapisi[i].lokacija_id, zapisi[i].casovni_zig,
                zapisi[i].vrednost) : i \in 1..Len(zapisi)}

\* the loop of create_bulk_meritve over the records from i on: pending
\* are the records db.add()ed so far, which the existence query sees
\* when the session autoflushes before a query
\* a loop that stops at the first record it refuses
RECURSIVE BulkLoop_abort(_, _, _, _, _)
BulkLoop_abort(batch, i, autoflush, pending, n_err) ==
    IF i > Len(batch) THEN [pending |-> pending, n_err |-> n_err]
    ELSE LET m == batch[i]
         IN  IF \/ Existing(m.lokacija_id, m.casovni_zig)
                \/ m.vrednost[1] < 0
                \/ m.vrednost[2] <= 0
             THEN [pending |-> pending, n_err |-> n_err + 1]
             ELSE BulkLoop_abort(batch, i + 1, autoflush, Append(pending, m), n_err)

\* a loop that counts a record with invalid values and adds it all the same
RECURSIVE BulkLoop_no_continue(_, _, _, _, _)
BulkLoop_no_continue(batch, i, autoflush, pending, n_err) ==
    IF i > Len(batch) THEN [pending |-> pending, n_err |-> n_err]
    ELSE LET m == batch[i]
         IN  IF Existing(m.lokacija_id, m.casovni_zig)
             THEN BulkLoop_no_continue(batch, i + 1, autoflush, pending, n_err + 1)
             ELSE IF m.vrednost[1] < 0 \/ m.vrednost[2] <= 0
             THEN BulkLoop_no_continue(batch, i + 1, autoflush,
                                       Append(pending, m), n_err + 1)
             ELSE BulkLoop_no_continue(batch, i + 1, autoflush,
                                       Append(pending, m), n_err)

RECURSIVE BulkLoop(_, _, _, _, _)
BulkLoop(batch, i, autoflush, pending, n_err) ==
    IF i > Len(batch) THEN [pending |-> pending, n_err |-> n_err]
    ELSE LET m == batch[i]
             existing ==
                 \/ Existing(m.lokacija_id, m.casovni_zig)
                 \/ /\ autoflush
                    /\ \E j \in 1..Len(pending) :
                          /\ pending[j].lokacija_id = m.lokacija_id
                          /\ pending[j].casovni_zig = m.casovni_zig
         IN  IF existing
             THEN BulkLoop(batch, i + 1, autoflush, pending, n_err + 1)
             ELSE IF m.vrednost[1] < 0 \/ m.vrednost[2] <= 0
             THEN BulkLoop(batch, i + 1, autoflush, pending, n_err + 1)
             ELSE BulkLoop(batch, i + 1, autoflush, Append(pending, m), n_err)

\* the documented cap of a batch
MaxBatchSize == 10000

\* POST /meritve/bulk.  Whether the session autoflushes is set where the
\* session is made (core/database.py), so both settings are possible.
\* An INSERT the storage rejects fails the flush or the commit; the
\* outer except rolls back and answers 500.
create_bulk_meritve(batch, autoflush) ==
    /\ IF batch = <<>>
       THEN /\ odgovor' = Odgovor("create_bulk_meritve", "empty", 0, 0)
            /\ UNCHANGED <<meritve, nextMeritevId>>
       ELSE IF Len(batch) > MaxBatchSize
       THEN /\ odgovor' = Odgovor("create_bulk_meritve", "too_large", 0, 0)
            /\ UNCHANGED <<meritve, nextMeritevId>>
       ELSE IF \E i \in 1..Len(batch) : ~LokacijaObstaja(batch[i].lokacija_id)
       THEN /\ odgovor' = Odgovor("create_bulk_meritve", "not_found", 0, 0)
            /\ UNCHANGED <<meritve, nextMeritevId>>
       ELSE LET r == BulkLoop(batch, 1, autoflush, <<>>, 0)
                success_count == Len(r.pending)
            IN  /\ nextMeritevId + MeritevIdsReserved + success_count - 1 <= MaxMeritve
                /\ IF InsertRejected(r.pending)
                   THEN /\ odgovor' = Odgovor("create_bulk_meritve", "error", 0, 0)
                        /\ UNCHANGED meritve
                        /\ nextMeritevId' = nextMeritevId + IdsTaken(r.pending, 1)
                   ELSE /\ odgovor' = Odgovor("create_bulk_meritve", "ok",
                                              success_count, r.n_err)
                        /\ meritve' = meritve \cup NewRows(r.pending, nextMeritevId)
                        /\ nextMeritevId' = nextMeritevId + success_count
    /\ UNCHANGED <<racuni, postavke, nextRacunId, leto, proc, log>>
    /\ UNCHANGED lastnistvo

\* ------------------------------------------------------------ CSVService
\* errors[:10]
MaxErrors == 10
Min(a, b) == IF a < b THEN a ELSE b

\* a validation that does not look at the consumption
RowHasError_no_poraba(row) ==
    \/ row.casovni_zig = NaT
    \/ row.vrednost[2] <= 0

RowHasError(row) ==
    \/ row.casovni_zig = NaT
    \/ row.vrednost[1] < 0
    \/ row.vrednost[2] <= 0

\* validate_csv_data: the number of entries of the error list
validate_csv_data(df) ==
    IF df = <<>> THEN 1
    ELSE Cardinality({i \in 1..Len(df) : RowHasError(df[i])})

\* the DELETE of the readings of a Lokacija fails when a line item
\* references one of them (postavke_racuna.meritev_id)
\* a table without the foreign key
DeleteMeritveRejected_never(lokacija_id) == FALSE

DeleteMeritveRejected(lokacija_id) ==
    \E m \in meritve, po \in postavke :
        m.lokacija_id = lokacija_id /\ po.meritev_id = m.id

\* a DELETE without the filter on lokacija_id
KeptMeritve_no_filter(lokacija_id, replace_existing) ==
    IF replace_existing THEN {} ELSE meritve

\* the readings left by "if replace_existing: db.query(Meritev)
\* .filter(Meritev.lokacija_id == lokacija_id).delete()"
KeptMeritve(lokacija_id, replace_existing) ==
    IF replace_existing
    THEN {m \in meritve : m.lokacija_id # lokacija_id}
    ELSE meritve

\* the ids of a file counted towards the bound on the sequence: a file
\* beyond the documented cap counts as one row, so that one such file
\* can be imported while the sequence is within its bound
IdsCounted(df) == IF Len(df) > MaxBatchSize THEN 1 ELSE Len(df)

\* "except Exception: db.rollback()" of import_csv_to_database: the
\* readings after a failure that follows the DELETE
\* a DELETE that stays when the INSERT fails
AfterRollback_delete_stays(kept) == kept

AfterRollback(kept) == meritve

import_csv_to_database(df, lokacija_id, replace_existing) ==
    /\ LET errors == validate_csv_data(df)
           kept == KeptMeritve(lokacija_id, replace_existing)
           rows == [i \in 1..Len(df) |-> [df[i] EXCEPT !.lokacija_id = lokacija_id]]
       IN  IF ~LokacijaObstaja(lokacija_id)
           THEN /\ odgovor' = Odgovor("import_csv", "not_found", 0, 1)
                /\ UNCHANGED <<meritve, nextMeritevId>>
           ELSE IF errors > 0
           THEN /\ odgovor' = Odgovor("import_csv", "invalid", 0, Min(errors, MaxErrors))
                /\ UNCHANGED <<meritve, nextMeritevId>>
           ELSE IF replace_existing /\ DeleteMeritveRejected(lokacija_id)
           THEN /\ odgovor' = Odgovor("import_csv", "error", 0, 1)
                /\ UNCHANGED <<meritve, nextMeritevId>>
           ELSE /\ nextMeritevId + MeritevIdsReserved + IdsCounted(df) - 1 <= MaxMeritve
                /\ IF InsertRejected(rows)
                   THEN /\ odgovor' = Odgovor("import_csv", "error", 0, 1)
                        /\ meritve' = AfterRollback(kept)
                        /\ nextMeritevId' = nextMeritevId + IdsTaken(rows, 1)
                   ELSE /\ odgovor' = Odgovor("import_csv", "ok", Len(df), 0)
                        /\ meritve' = kept \cup NewRows(rows, nextMeritevId)
                        /\ nextMeritevId' = nextMeritevId + Len(df)
    /\ UNCHANGED <<racuni, postavke, nextRacunId, leto, proc, log>>
    /\ UNCHANGED lastnistvo

\* DELETE /meritve/bulk/location/{id}: the HTTPException raised for
\* readings in use is caught by the handler's own except and answered
\* as 500
delete_all_meritve_for_location(lokacija_id, confirm) ==
    /\ LET mine == {m \in meritve : m.lokacija_id = lokacija_id}
           used == \E m \in mine, po \in postavke : po.meritev_id = m.id
       IN  IF ~confirm
           THEN /\ odgovor' = Odgovor("delete_all_meritve", "unconfirmed", 0, 0)
                /\ UNCHANGED meritve
           ELSE IF ~LokacijaObstaja(lokacija_id)
           THEN /\ odgovor' = Odgovor("delete_all_meritve", "not_found", 0, 0)
                /\ UNCHANGED meritve
           ELSE IF used \/ DeleteMeritveRejected(lokacija_id)
           THEN /\ odgovor' = Odgovor("delete_all_meritve", "error", 0, 0)
                /\ UNCHANGED meritve
           ELSE /\ odgovor' = Odgovor("delete_all_meritve", "ok", Cardinality(mine), 0)
                /\ meritve' = meritve \ mine
    /\ UNCHANGED <<racuni, postavke, nextMeritevId, nextRacunId, leto, proc, log>>
    /\ UNCHANGED lastnistvo

\* --------------------------------------------------------- routers/admin.py
\* POST /admin/cleanup-old-data: the first statement uses timedelta, which
\* the module does not import; the NameError is raised before any query,
\* in dry-run and in live mode
cleanup_old_data(dry_run) ==
    /\ odgovor' = Odgovor("cleanup_old_data", "error", 0, 0)
    /\ UNCHANGED <<meritve, racuni, postavke, nextMeritevId, nextRacunId, leto, proc, log>>
    /\ UNCHANGED lastnistvo

\* ------------------------------------------------------------- the clock
NovoLeto ==
    /\ leto + 1 \in Leta
    /\ leto' = leto + 1
    /\ UNCHANGED <<meritve, racuni, postavke, nextMeritevId, nextRacunId, proc, log, odgovor>>
    /\ UNCHANGED lastnistvo

Next ==
    \/ \E p \in Procs, r \in InvoiceRequests :
          create_invoice_calculate(p, r[1], r[2], r[3])
    \/ \E p \in Procs : create_invoice_flush(p)
    \/ \E p \in Procs : create_invoice_commit(p)
    \/ \E id \in 1..MaxRacuni : delete_racun(id)
    \/ \E p \in Procs, r \in MeritevRequests :
          create_meritev_check(p, r[1], r[2], r[3])
    \/ \E p \in Procs : create_meritev_commit(p)
    \/ \E id \in 1..MaxMeritve : delete_meritev(id)
    \/ \E b \in BulkBatches, af \in BOOLEAN : create_bulk_meritve(b, af)
    \/ \E r \in CsvRequests : import_csv_to_database(r[1], r[2], r[3])
    \/ \E r \in DeleteAllRequests : delete_all_meritve_for_location(r[1], r[2])
    \/ \E dry_run \in BOOLEAN : cleanup_old_data(dry_run)
    \/ \E p \in Procs, id \in 1..MaxRacuni : generate_pdf_start(p, id)
    \/ \E p \in Procs, rendered \in BOOLEAN : generate_pdf_commit(p, rendered)
    \/ \E p \in Procs, id \in 1..MaxRacuni, ready \in BOOLEAN :
          send_invoice_email_start(p, id, ready)
    \/ \E p \in Procs, delivered \in BOOLEAN : send_invoice_email_commit(p, delivered)
    \/ \E r \in InvoiceRequests : get_location_statistics(r[1], r[2], r[3])
    \/ create_stranka
    \/ \E p \in Procs, id \in StrankaIds : delete_stranka_check(p, id)
    \/ \E p \in Procs : delete_stranka_commit(p)
    \/ \E p \in Procs, id \in StrankaIds : create_lokacija_check(p, id)
    \/ \E p \in Procs : create_lokacija_commit(p)
    \/ \E p \in Procs, id \in LokacijaIds : delete_lokacija_check(p, id)
    \/ \E p \in Procs : delete_lokacija_commit(p)

\* the engine within one calendar year
Spec == Init /\ [][Next]_vars

\* the batches that give the invoice handlers their readings
RacuniBatches ==
    {<<Zapis(1, 0, VC)>>,
     <<Zapis(1, 0, VC), Zapis(1, 2, VC)>>,
     <<Zapis(1, 0, VC), Zapis(2, 0, VD)>>}
LetoBatches ==
    {<<Zapis(1, 0, VC)>>,
     <<Zapis(1, 0, VC), Zapis(2, 0, VD)>>}

\* the invoice handlers, with the readings written by bulk requests
NextRacuni ==
    \/ \E p \in Procs, r \in InvoiceRequests :
          create_invoice_calculate(p, r[1], r[2], r[3])
    \/ \E p \in Procs : create_invoice_flush(p)
    \/ \E p \in Procs : create_invoice_commit(p)
    \/ \E id \in 1..MaxRacuni : delete_racun(id)
    \/ \E id \in 1..MaxMeritve : delete_meritev(id)
    \/ \E b \in RacuniBatches, af \in BOOLEAN : create_bulk_meritve(b, af)

SpecRacuni == Init /\ [][NextRacuni]_vars

\* the same across a change of the calendar year
NextLeto ==
    \/ \E p \in Procs, r \in InvoiceRequests :
          create_invoice_calculate(p, r[1], r[2], r[3])
    \/ \E p \in Procs : create_invoice_flush(p)
    \/ \E p \in Procs : create_invoice_commit(p)
    \/ \E id \in 1..MaxRacuni : delete_racun(id)
    \/ \E id \in 1..MaxMeritve : delete_meritev(id)
    \/ \E b \in LetoBatches, af \in BOOLEAN : create_bulk_meritve(b, af)
    \/ NovoLeto

SpecLeto == Init /\ [][NextLeto]_vars

\* the invoice handlers with every handler that deletes readings
BrisanjeCsv ==
    {<<<<Zapis(0, 0, VC)>>, 1, TRUE>>,
     <<<<Zapis(0, 2, VC)>>, 2, TRUE>>,
     <<<<Zapis(0, 0, VC)>>, 1, FALSE>>}
NextBrisanje ==
    \/ \E p \in Procs, r \in InvoiceRequests :
          create_invoice_calculate(p, r[1], r[2], r[3])
    \/ \E p \in Procs : create_invoice_flush(p)
    \/ \E p \in Procs : create_invoice_commit(p)
    \/ \E id \in 1..MaxRacuni : delete_racun(id)
    \/ \E id \in 1..MaxMeritve : delete_meritev(id)
    \/ \E b \in LetoBatches, af \in BOOLEAN : create_bulk_meritve(b, af)
    \/ \E r \in BrisanjeCsv : import_csv_to_database(r[1], r[2], r[3])
    \/ \E r \in DeleteAllRequests : delete_all_meritve_for_location(r[1], r[2])
    \/ \E dry_run \in BOOLEAN : cleanup_old_data(dry_run)

SpecBrisanje == Init /\ [][NextBrisanje]_vars

\* invoice creation with document generation and notification
NextDokumenti ==
    \/ \E p \in Procs, r \in InvoiceRequests :
          create_invoice_calculate(p, r[1], r[2], r[3])
    \/ \E p \in Procs : create_invoice_flush(p)
    \/ \E p \in Procs : create_invoice_commit(p)
    \/ \E b \in LetoBatches, af \in BOOLEAN : create_bulk_meritve(b, af)
    \/ \E p \in Procs, id \in 1..MaxRacuni : generate_pdf_start(p, id)
    \/ \E p \in Procs, rendered \in BOOLEAN : generate_pdf_commit(p, rendered)
    \/ \E p \in Procs, id \in 1..MaxRacuni, ready \in BOOLEAN :
          send_invoice_email_start(p, id, ready)
    \/ \E p \in Procs, delivered \in BOOLEAN : send_invoice_email_commit(p, delivered)

SpecDokumenti == Init /\ [][NextDokumenti]_vars

\* readings and their statistics
NextStatistike ==
    \/ \E b \in BulkBatches, af \in BOOLEAN : create_bulk_meritve(b, af)
    \/ \E id \in 1..MaxMeritve : delete_meritev(id)
    \/ \E r \in InvoiceRequests : get_location_statistics(r[1], r[2], r[3])

SpecStatistike == Init /\ [][NextStatistike]_vars

\* ingestion of batches around the documented cap: a batch and a file of
\* one record more than the cap, the records at successive timestamps
VelikBatch == [i \in 1..(MaxBatchSize + 1) |-> Zapis(1, i, VC)]
VelikaDatoteka == [i \in 1..(MaxBatchSize + 1) |-> Zapis(0, i, VC)]
VelikiBatches == BulkBatches \cup {VelikBatch}
VelikiCsv ==
    {<<VelikaDatoteka, 1, FALSE>>, <<VelikaDatoteka, 1, TRUE>>,
     <<<<Zapis(0, 0, VC)>>, 1, FALSE>>}
NextVeliki ==
    \/ \E b \in VelikiBatches, af \in BOOLEAN : create_bulk_meritve(b, af)
    \/ \E r \in VelikiCsv : import_csv_to_database(r[1], r[2], r[3])
    \/ \E id \in 1..MaxMeritve : delete_meritev(id)

SpecVeliki == Init /\ [][NextVeliki]_vars

\* ingestion of batches with more failing records than a report lists
NapacenBatch == [i \in 1..(MaxErrors + 1) |-> Zapis(1, 0, VNeg)]
NapacnaDatoteka == [i \in 1..(MaxErrors + 1) |-> Zapis(0, 0, VNeg)]
NapakeBatches == BulkBatches \cup {NapacenBatch}
NapakeCsv ==
    {<<NapacnaDatoteka, 1, FALSE>>, <<NapacnaDatoteka, 1, TRUE>>,
     <<<<Zapis(0, 0, VC), Zapis(0, 2, VNeg)>>, 1, FALSE>>,
     <<<<Zapis(0, 0, VC)>>, 1, FALSE>>}
NextNapake ==
    \/ \E b \in NapakeBatches, af \in BOOLEAN : create_bulk_meritve(b, af)
    \/ \E r \in NapakeCsv : import_csv_to_database(r[1], r[2], r[3])
    \/ \E id \in 1..MaxMeritve : delete_meritev(id)

SpecNapake == Init /\ [][NextNapake]_vars

\* customers and locations, with readings and invoices written while
\* they are created and deleted
LastnistvoMeritve == {<<1, 0, VC>>}
LastnistvoRacuni == {<<1, 0, 0>>}
NextLastnistvo ==
    \/ create_stranka
    \/ \E p \in Procs, id \in StrankaIds : delete_stranka_check(p, id)
    \/ \E p \in Procs : delete_stranka_commit(p)
    \/ \E p \in Procs, id \in StrankaIds : create_lokacija_check(p, id)
    \/ \E p \in Procs : create_lokacija_commit(p)
    \/ \E p \in Procs, id \in LokacijaIds : delete_lokacija_check(p, id)
    \/ \E p \in Procs : delete_lokacija_commit(p)
    \/ \E p \in Procs, r \in LastnistvoMeritve :
          create_meritev_check(p, r[1], r[2], r[3])
    \/ \E p \in Procs : create_meritev_commit(p)
    \/ \E p \in Procs, r \in LastnistvoRacuni :
          create_invoice_calculate(p, r[1], r[2], r[3])
    \/ \E p \in Procs : create_invoice_flush(p)
    \/ \E p \in Procs : create_invoice_commit(p)

SpecLastnistvo == Init /\ [][NextLastnistvo]_vars

\* issued invoices under later ingestion, deletion, document generation
\* and notification
PosnetekRacuni == {<<1, 0, 1>>}
PosnetekBatches == {<<Zapis(1, 0, VC)>>}
PosnetekCsv ==
    {<<<<Zapis(0, 2, VA)>>, 1, TRUE>>, <<<<Zapis(0, 2, VA)>>, 1, FALSE>>}
NextPosnetek ==
    \/ \E p \in Procs, r \in PosnetekRacuni :
          create_invoice_calculate(p, r[1], r[2], r[3])
    \/ \E p \in Procs : create_invoice_flush(p)
    \/ \E p \in Procs : create_invoice_commit(p)
    \/ \E id \in 1..MaxRacuni : delete_racun(id)
    \/ \E id \in 1..MaxMeritve : delete_meritev(id)
    \/ \E b \in PosnetekBatches, af \in {TRUE} : create_bulk_meritve(b, af)
    \/ \E r \in PosnetekCsv : import_csv_to_database(r[1], r[2], r[3])
    \/ \E p \in Procs, id \in {1} : generate_pdf_start(p, id)
    \/ \E p \in Procs, rendered \in {TRUE} : generate_pdf_commit(p, rendered)
    \/ \E p \in Procs, id \in {1}, ready \in {TRUE} :
          send_invoice_email_start(p, id, ready)
    \/ \E p \in Procs, delivered \in {TRUE} : send_invoice_email_commit(p, delivered)

SpecPosnetek == Init /\ [][NextPosnetek]_vars

\* one caller at a time, within one calendar year
NextZaporedno ==
    \/ \E r \in InvoiceRequests : create_invoice_calculate(1, r[1], r[2], r[3])
    \/ create_invoice_flush(1)
    \/ create_invoice_commit(1)
    \/ proc[1].pc = "idle" /\ \E id \in 1..MaxRacuni : delete_racun(id)
    \/ proc[1].pc = "idle" /\ \E id \in 1..MaxMeritve : delete_meritev(id)
    \/ /\ proc[1].pc = "idle"
       /\ \E b \in RacuniBatches, af \in BOOLEAN : create_bulk_meritve(b, af)

SpecZaporedno == Init /\ [][NextZaporedno]_vars

\* the handlers that write and delete readings
NextMeritve ==
    \/ \E p \in Procs, r \in MeritevRequests :
          create_meritev_check(p, r[1], r[2], r[3])
    \/ \E p \in Procs : create_meritev_commit(p)
    \/ \E id \in 1..MaxMeritve : delete_meritev(id)
    \/ \E b \in BulkBatches, af \in BOOLEAN : create_bulk_meritve(b, af)
    \/ \E r \in CsvRequests : import_csv_to_database(r[1], r[2], r[3])

SpecMeritve == Init /\ [][NextMeritve]_vars

\* the handlers that write readings, with values the columns cannot hold
\* among the requests
AtomarnoMeritve ==
    (Lokacije \X {0, 2} \X {VC}) \cup {<<1, 3, VPrevelika>>}
AtomarnoBatches ==
    {<<Zapis(1, 0, VC)>>,
     <<Zapis(2, 0, VD)>>,
     <<Zapis(1, 2, VA), Zapis(1, 3, VPrevelika)>>}
AtomarnoCsv ==
    ({<<Zapis(0, 0, VC)>>,
      <<Zapis(0, 2, VA), Zapis(0, 3, VPrevelika)>>} \X Lokacije \X BOOLEAN)
    \cup {<<<<Zapis(0, 3, VPrevelika)>>, 1, TRUE>>,
          <<<<Zapis(0, 0, VNeg)>>, 1, TRUE>>}

NextAtomarno ==
    \/ \E p \in Procs, r \in AtomarnoMeritve :
          create_meritev_check(p, r[1], r[2], r[3])
    \/ \E p \in Procs : create_meritev_commit(p)
    \/ \E id \in 1..MaxMeritve : delete_meritev(id)
    \/ \E b \in AtomarnoBatches, af \in BOOLEAN : create_bulk_meritve(b, af)
    \/ \E r \in AtomarnoCsv : import_csv_to_database(r[1], r[2], r[3])

SpecAtomarno == Init /\ [][NextAtomarno]_vars

\* the batch handlers: bulk insert, CSV import and the deletes
NextUvoz ==
    \/ \E id \in 1..MaxMeritve : delete_meritev(id)
    \/ \E b \in BulkBatches, af \in BOOLEAN : create_bulk_meritve(b, af)
    \/ \E r \in CsvRequests : import_csv_to_database(r[1], r[2], r[3])
    \/ \E r \in DeleteAllRequests : delete_all_meritve_for_location(r[1], r[2])

SpecUvoz == Init /\ [][NextUvoz]_vars

\* ==================================================================
\* Properties
\* ==================================================================
PostavkeOf(r) == {po \in postavke : po.racun_id = r.id}

RECURSIVE Vsota(_)
Vsota(S) ==
    IF S = {} THEN 0
    ELSE LET x == CHOOSE y \in S : TRUE IN x.znesek + Vsota(S \ {x})

\* C1: no two persisted invoices carry the same stevilka_racuna, under any
\* interleaving of create_invoice and delete_racun calls.
C1_UniqueInvoiceNumbers ==
    \A r1 \in racuni, r2 \in racuni :
        r1.stevilka_racuna = r2.stevilka_racuna => r1 = r2

\* two invoices of one calendar year are persisted
C1_Witness ==
    \E r1 \in racuni, r2 \in racuni :
        /\ r1.id # r2.id
        /\ r1.stevilka_racuna[1] = r2.stevilka_racuna[1]

C3_ConcurrentNumberConflict ==
    [][/\ \A p \in Procs, q \in Procs :
             (/\ p # q
              /\ proc'[p].pc = "ci_commit"
              /\ proc'[q].pc = "ci_commit")
             => proc'[p].stevilka # proc'[q].stevilka
       /\ \A p \in Procs :
             (proc[p].pc = "ci_flush" /\ proc'[p].pc = "idle")
             => /\ odgovor' = Odgovor("create_invoice", "conflict", 0, 0)
                /\ racuni' = racuni
                /\ postavke' = postavke
                /\ Cardinality({r \in racuni' :
                       r.stevilka_racuna = proc[p].stevilka}) = 1
      ]_vars

\* a call has lost the race: the conflict was returned and the invoice of
\* the winner is persisted
C3_Witness ==
    /\ odgovor = Odgovor("create_invoice", "conflict", 0, 0)
    /\ Cardinality(racuni) = 1

\* C4: a create_invoice call that ends either adds one header together
\* with one line item per calculated item, or adds nothing; no line item
\* is without its header and no header without line items.
C4_InvoiceAllOrNothing ==
    [][/\ \A po \in postavke' : \E r \in racuni' : r.id = po.racun_id
       /\ \A r \in racuni' : \E po \in postavke' : po.racun_id = r.id
       /\ \A p \in Procs :
             (proc[p].pc \in {"ci_flush", "ci_commit"} /\ proc'[p].pc = "idle")
             => LET newR == racuni' \ racuni
                    newP == postavke' \ postavke
                IN  \/ /\ odgovor'.status # "ok"
                       /\ racuni' = racuni
                       /\ postavke' = postavke
                    \/ /\ odgovor'.status = "ok"
                       /\ racuni \subseteq racuni'
                       /\ postavke \subseteq postavke'
                       /\ Cardinality(newR) = 1
                       /\ \A r \in newR : \A po \in newP : po.racun_id = r.id
                       /\ {po.meritev_id : po \in newP}
                              = {it.meritev_id : it \in proc[p].line_items}
                       /\ Cardinality(newP) = Cardinality(proc[p].line_items)
      ]_vars

\* one call committed its invoice and another failed at the commit of its
\* line items
C4_Witness ==
    /\ odgovor = Odgovor("create_invoice", "error", 0, 0)
    /\ Cardinality(racuni) = 1

C6_TotalIsSumOfRoundedItems ==
    \A r \in racuni : r.skupni_znesek = Vsota(PostavkeOf(r))

\* an invoice of two half-cent items: 0.12 + 0.12 = 0.24, where the
\* products sum to 0.25
C6_Witness ==
    \E r \in racuni :
        /\ Cardinality(PostavkeOf(r)) = 2
        /\ r.skupni_znesek = 24
        /\ \A po \in PostavkeOf(r) : po.poraba_kwh * po.cena_eur_kwh * 8 = CentDivisor * 100

\* C7: znesek of every line item is the product of its own poraba_kwh and
\* cena_eur_kwh in cents, rounded to the nearest cent, a half cent to the
\* even cent.
C7_ItemAmountHalfEven ==
    \A po \in postavke :
        LET x == po.poraba_kwh * po.cena_eur_kwh
            e == x - po.znesek * CentDivisor
            a == IF e < 0 THEN 0 - e ELSE e
        IN  /\ 2 * a <= CentDivisor
            /\ 2 * a = CentDivisor => po.znesek % 2 = 0

\* line items of 0.125 EUR (12 cents) and of 0.135 EUR (14 cents)
C7_Witness ==
    /\ \E po \in postavke : po.cena_eur_kwh = 12500 /\ po.znesek = 12
    /\ \E po \in postavke : po.cena_eur_kwh = 13500 /\ po.znesek = 14

\* C8: at most one reading is persisted per (lokacija_id, casovni_zig),
\* after any sequence of create_meritev, create_bulk_meritve and CSV
\* imports with or without replace_existing.
C8_OneReadingPerKey ==
    \A m1 \in meritve, m2 \in meritve :
        (/\ m1.lokacija_id = m2.lokacija_id
         /\ m1.casovni_zig = m2.casovni_zig)
        => m1 = m2

\* C9: a create_meritev request for a (lokacija_id, casovni_zig) that has
\* a persisted reading gets the duplicate error and leaves the readings
\* as they were.
C9_DuplicateRejected ==
    [][\A p \in Procs, rq \in MeritevRequests :
          (/\ create_meritev_check(p, rq[1], rq[2], rq[3])
           /\ \E m \in meritve :
                 m.lokacija_id = rq[1] /\ m.casovni_zig = rq[2])
          => /\ odgovor' = Odgovor("create_meritev", "duplicate", 0, 0)
             /\ UNCHANGED <<meritve, proc>>
      ]_vars

\* the duplicate error was returned while no call was in progress
C9_Witness ==
    /\ odgovor = Odgovor("create_meritev", "duplicate", 0, 0)
    /\ meritve # {}
    /\ \A p \in Procs : proc[p].pc = "idle"

\* C10: of two create_meritev calls for one (lokacija_id, casovni_zig) that
\* both pass the existence check before either commits, the one that
\* commits second persists nothing and gets the duplicate conflict.
C10_ConcurrentDuplicateRejected ==
    [][\A p \in Procs :
          (/\ proc[p].pc = "cm_commit"
           /\ proc'[p].pc = "idle"
           /\ \E m \in meritve :
                 /\ m.lokacija_id = proc[p].lokacija_id
                 /\ m.casovni_zig = proc[p].casovni_zig)
          => /\ meritve' = meritve
             /\ odgovor'.status = "duplicate"
      ]_vars

\* C11: every persisted reading has poraba_kwh >= 0 and a
\* dinamicna_cena_eur_kwh > 0, whichever of create_meritev,
\* create_bulk_meritve and the CSV import wrote it.
C11_PersistedValuesValid ==
    \A m \in meritve : m.poraba_kwh >= 0 /\ m.dinamicna_cena_eur_kwh > 0

\* the requests of POST /meritve/bulk
BulkRequests == BulkBatches \X BOOLEAN

\* a record of a request whose values the validation refuses
NeveljavenZapis(z) == z.vrednost[1] < 0 \/ z.vrednost[2] <= 0

\* a committed reading has the key of the record
ZeShranjen(z, lokacija_id) ==
    \E m \in meritve : /\ m.lokacija_id = lokacija_id
                       /\ m.casovni_zig = z.casovni_zig

\* the row m holds the record z for the Lokacija
VrsticaZapisa(m, z, lokacija_id) ==
    /\ m.lokacija_id = lokacija_id
    /\ m.casovni_zig = z.casovni_zig
    /\ m.poraba_kwh * 10 - z.vrednost[1] \in -5..5
    /\ m.dinamicna_cena_eur_kwh * 10 - z.vrednost[2] \in -5..5

\* C12: a CSV import of a file with a row that fails the validation
\* reports failure with imported_count 0 and at most 10 errors and
\* writes nothing: no reading is inserted and none is deleted, with
\* replace_existing or without.
C12_CsvGateAllOrNothing ==
    [][\A r \in CsvRequests :
          (/\ import_csv_to_database(r[1], r[2], r[3])
           /\ \E i \in 1..Len(r[1]) :
                 \/ r[1][i].casovni_zig = NaT
                 \/ NeveljavenZapis(r[1][i]))
          => /\ odgovor'.op = "import_csv"
             /\ odgovor'.status \in {"invalid", "not_found"}
             /\ odgovor'.n_ok = 0
             /\ odgovor'.n_err \in 1..MaxErrors
             /\ r[2] \in Lokacije =>
                   odgovor'.n_err = Cardinality({i \in 1..Len(r[1]) :
                        \/ r[1][i].casovni_zig = NaT
                        \/ NeveljavenZapis(r[1][i])})
             /\ meritve' = meritve
      ]_vars

\* a file with two bad rows was refused while readings were stored
C12_Witness ==
    /\ odgovor = Odgovor("import_csv", "invalid", 0, 2)
    /\ \E m \in meritve : m.lokacija_id = 1
    /\ \E m \in meritve : m.lokacija_id = 2

\* C13: create_bulk_meritve checks every record on its own: a record
\* with the key of a stored reading or with invalid values is counted as
\* an error, the other records are persisted, and the counts say so.
C13_BulkPerRecord ==
    [][\A r \in BulkRequests :
          (/\ create_bulk_meritve(r[1], r[2])
           /\ \A i \in 1..Len(r[1]) : r[1][i].lokacija_id \in Lokacije)
          => LET b == r[1]
                 new == meritve' \ meritve
                 bad == {i \in 1..Len(b) :
                            \/ NeveljavenZapis(b[i])
                            \/ ZeShranjen(b[i], b[i].lokacija_id)}
                 sam == {i \in 1..Len(b) : \A j \in 1..Len(b) :
                            (/\ b[j].lokacija_id = b[i].lokacija_id
                             /\ b[j].casovni_zig = b[i].casovni_zig) => j = i}
             IN  /\ odgovor'.status = "ok"
                 /\ odgovor'.n_ok + odgovor'.n_err = Len(b)
                 /\ odgovor'.n_err >= Cardinality(bad)
                 /\ meritve \subseteq meritve'
                 /\ Cardinality(new) = odgovor'.n_ok
                 /\ \A m \in new : \E i \in (1..Len(b)) \ bad :
                       VrsticaZapisa(m, b[i], b[i].lokacija_id)
                 /\ \A i \in sam \ bad : \E m \in new :
                       VrsticaZapisa(m, b[i], b[i].lokacija_id)
                 /\ (\A i \in 1..Len(b) : i \in sam) =>
                       odgovor'.n_err = Cardinality(bad)
      ]_vars

\* a batch of three records: one with the key of a stored reading, one
\* with invalid values, one persisted
C13_Witness ==
    /\ odgovor = Odgovor("create_bulk_meritve", "ok", 1, 2)
    /\ \E m \in meritve : m.lokacija_id = 1 /\ m.casovni_zig = 0
    /\ \E m \in meritve : m.lokacija_id = 1 /\ m.casovni_zig = 2

\* C14: a create_bulk_meritve call none of whose records passes its
\* checks leaves the persisted readings as they were.
C14_BulkNothingPassed ==
    [][\A r \in BulkRequests :
          (/\ create_bulk_meritve(r[1], r[2])
           /\ \A i \in 1..Len(r[1]) :
                 \/ NeveljavenZapis(r[1][i])
                 \/ ZeShranjen(r[1][i], r[1][i].lokacija_id)
                 \/ r[1][i].lokacija_id \notin Lokacije)
          => /\ meritve' = meritve
             /\ odgovor'.n_ok = 0
      ]_vars

\* a batch of a duplicate and an invalid record was answered with
\* success_count 0
C14_Witness ==
    /\ odgovor = Odgovor("create_bulk_meritve", "ok", 0, 2)
    /\ meritve # {}

\* C15: after a successful CSV import with replace_existing the readings
\* of the Lokacija are the rows of the file, one reading per row, the
\* readings of every other Lokacija are as before, and imported_count is
\* the number of rows written.
C15_ReplaceExisting ==
    [][\A r \in CsvRequests :
          (/\ import_csv_to_database(r[1], r[2], r[3])
           /\ r[3]
           /\ odgovor'.status = "ok")
          => LET df == r[1]
                 mine == {m \in meritve' : m.lokacija_id = r[2]}
             IN  /\ mine \cap meritve = {}
                 /\ Cardinality(mine) = Len(df)
                 /\ odgovor'.n_ok = Len(df)
                 /\ \A i \in 1..Len(df) : \E m \in mine : VrsticaZapisa(m, df[i], r[2])
                 /\ \A m \in mine : \E i \in 1..Len(df) : VrsticaZapisa(m, df[i], r[2])
                 /\ {m \in meritve' : m.lokacija_id # r[2]}
                       = {m \in meritve : m.lokacija_id # r[2]}
      ]_vars

\* the reading stored before the import is gone and the row of the file
\* is the only reading
C15_Witness ==
    /\ odgovor = Odgovor("import_csv", "ok", 1, 0)
    /\ nextMeritevId = 3
    /\ \E m \in meritve : meritve = {m} /\ m.id = 2

\* C16: every line item's reading exists: no handler removes a reading
\* that a line item references.
C16_BilledReadingsStay ==
    \A po \in postavke : \E m \in meritve : m.id = po.meritev_id

\* a handler that deletes all readings of a Lokacija was refused for a
\* Lokacija with an invoiced reading
C16_Witness ==
    /\ postavke # {}
    /\ odgovor.status = "error"
    /\ odgovor.op \in {"import_csv", "delete_all_meritve"}

\* USTVARJEN -> GENERIRAN -> POSLAN
StatusRank(status) ==
    IF status = "USTVARJEN" THEN 1 ELSE IF status = "GENERIRAN" THEN 2 ELSE 3

\* C17: the status of an invoice never moves backward along USTVARJEN,
\* GENERIRAN, POSLAN, in any interleaving of generate_pdf and
\* send_invoice_email runs.
C17_StatusForwardOnly ==
    [][\A r \in racuni, n \in racuni' :
          r.id = n.id => StatusRank(n.status) >= StatusRank(r.status)
      ]_vars

\* invoices without their status and document path
Glave(S) == {[x EXCEPT !.status = "", !.pdf_pot = ""] : x \in S}

\* C18: a rendering or a delivery that fails leaves every invoice and
\* every line item as it was, the status included; no run of generate_pdf
\* or send_invoice_email changes more of an invoice than its status and
\* its pdf_pot.
C18_FailureKeepsInvoice ==
    [][\A p \in Procs :
          /\ \A rendered \in BOOLEAN :
                generate_pdf_commit(p, rendered)
                => /\ postavke' = postavke
                   /\ Glave(racuni') = Glave(racuni)
                   /\ ~rendered => racuni' = racuni
          /\ \A delivered \in BOOLEAN :
                send_invoice_email_commit(p, delivered)
                => /\ postavke' = postavke
                   /\ Glave(racuni') = Glave(racuni)
                   /\ ~delivered => racuni' = racuni
          /\ \A id \in 1..MaxRacuni, ready \in BOOLEAN :
                (generate_pdf_start(p, id) \/ send_invoice_email_start(p, id, ready))
                => racuni' = racuni /\ postavke' = postavke
      ]_vars

\* a delivery failed for an invoice whose document was generated, and
\* the invoice is not POSLAN
C18_Witness ==
    /\ odgovor = Odgovor("send_invoice_email", "error", 0, 0)
    /\ \A p \in Procs : proc[p].pc = "idle"
    /\ \E r \in racuni : r.status = "GENERIRAN" /\ r.pdf_pot = "pdf"
    /\ \A r \in racuni : r.status # "POSLAN"
    /\ postavke # {}

\* C19: calculate_statistics counts a reading of the Lokacija exactly when
\* window start <= casovni_zig < window end; a reading at the window end
\* is not counted.
C19_StatisticsWindowClosedOpen ==
    [][\A r \in InvoiceRequests :
          (get_location_statistics(r[1], r[2], r[3]) /\ r[1] \in Lokacije)
          => odgovor'.n_ok =
                Cardinality({m \in meritve : /\ m.lokacija_id = r[1]
                                             /\ m.casovni_zig >= Polnoc(r[2])
                                             /\ m.casovni_zig < Polnoc(r[3])})
      ]_vars

\* the line items S bill the readings M one to one, with their values
EnaNaEno(S, M) ==
    /\ Cardinality(S) = Cardinality(M)
    /\ \A m \in M : \E it \in S : /\ it.meritev_id = m.id
                                  /\ it.poraba_kwh = m.poraba_kwh
                                  /\ it.cena_eur_kwh = m.dinamicna_cena_eur_kwh
    /\ \A it \in S : \E m \in M : m.id = it.meritev_id

\* C20: the line items a create_invoice computes are one to one with the
\* readings of the Lokacija with start <= casovni_zig <= end (the dates
\* taken as their midnight) at the time of the calculation, and a
\* successful commit stores exactly those line items under the new
\* invoice: none missing, none twice, none of another Lokacija or outside
\* the period.
C20_LineItemsMatchReadings ==
    [][\A p \in Procs :
          /\ \A r \in InvoiceRequests :
                (create_invoice_calculate(p, r[1], r[2], r[3])
                 /\ proc'[p].pc = "ci_flush")
                => EnaNaEno(proc'[p].line_items,
                            {m \in meritve : /\ m.lokacija_id = r[1]
                                             /\ m.casovni_zig >= Polnoc(r[2])
                                             /\ m.casovni_zig <= Polnoc(r[3])})
          /\ (create_invoice_commit(p) /\ odgovor'.status = "ok")
             => LET nove == postavke' \ postavke
                IN  /\ \A po \in nove : po.racun_id = proc[p].racun_id
                    /\ \A po \in postavke : po.racun_id # proc[p].racun_id
                    /\ Cardinality(nove) = Cardinality(proc[p].line_items)
                    /\ \A it \in proc[p].line_items :
                          \E po \in nove : /\ po.meritev_id = it.meritev_id
                                           /\ po.poraba_kwh = it.poraba_kwh
                                           /\ po.cena_eur_kwh = it.cena_eur_kwh
                    /\ \A po \in nove :
                          \E m \in meritve :
                             /\ m.id = po.meritev_id
                             /\ m.lokacija_id = proc[p].lokacija_id
                             /\ m.casovni_zig >= Polnoc(proc[p].datum_od)
                             /\ m.casovni_zig <= Polnoc(proc[p].datum_do)
      ]_vars

\* an invoice was created for a period that ends at the timestamp of its
\* one billed reading, while a later reading of the Lokacija is not on it
C20_Witness ==
    /\ odgovor = Odgovor("create_invoice", "ok", 1, 0)
    /\ \E r \in racuni, m \in meritve, n \in meritve :
          /\ r.lokacija_id = m.lokacija_id /\ r.lokacija_id = n.lokacija_id
          /\ m.casovni_zig = Polnoc(r.datum_do)
          /\ n.casovni_zig > Polnoc(r.datum_do)
          /\ {po.meritev_id : po \in PostavkeOf(r)} = {m.id}

\* C21: a bulk batch or a CSV file of more than 10,000 records is
\* refused, and no reading is written or deleted.
C21_BatchTooLarge ==
    [][/\ \A b \in VelikiBatches, af \in BOOLEAN :
             (create_bulk_meritve(b, af) /\ Len(b) > MaxBatchSize)
             => odgovor'.status # "ok" /\ meritve' = meritve
       /\ \A r \in VelikiCsv :
             (import_csv_to_database(r[1], r[2], r[3]) /\ Len(r[1]) > MaxBatchSize)
             => odgovor'.status # "ok" /\ meritve' = meritve
      ]_vars

\* C22: the result of an ingestion call with failing records carries the
\* number of failed records, also when more than 10 fail, while its error
\* list has at most 10 entries.  The result of a bulk call carries
\* error_count (n_err) and lists errors[:10]; the result of a CSV import
\* carries imported_count (n_ok) and the error list, whose length is n_err.
C22_ErrorReportCapped ==
    [][/\ \A b \in NapakeBatches, af \in BOOLEAN :
             (create_bulk_meritve(b, af) /\ odgovor'.status = "ok")
             => odgovor'.n_err =
                   Len(b) - Cardinality(meritve') + Cardinality(meritve)
       /\ \A r \in NapakeCsv :
             (import_csv_to_database(r[1], r[2], r[3])
              /\ validate_csv_data(r[1]) > 0)
             => /\ odgovor'.n_err <= MaxErrors
                /\ validate_csv_data(r[1]) \in {odgovor'.n_ok, odgovor'.n_err}
      ]_vars

\* C23: every Lokacija references a Stranka that has a row, and every
\* reading and every invoice a Lokacija that has a row; a delete_stranka
\* for a Stranka that owns a Lokacija and a delete_lokacija for a Lokacija
\* with a reading or an invoice are refused and change nothing.
C23_NoDanglingOwnership ==
    /\ [](/\ \A l \in lokacije : l.stranka_id \in stranke
          /\ \A m \in meritve : LokacijaObstaja(m.lokacija_id)
          /\ \A r \in racuni : LokacijaObstaja(r.lokacija_id))
    /\ [][\A p \in Procs :
             /\ \A id \in StrankaIds :
                   (/\ delete_stranka_check(p, id)
                    /\ \E l \in lokacije : l.stranka_id = id)
                   => /\ odgovor' = Odgovor("delete_stranka", "in_use", 0, 0)
                      /\ UNCHANGED <<stranke, lokacije, meritve, racuni, proc>>
             /\ (/\ delete_stranka_commit(p)
                 /\ \E l \in lokacije : l.stranka_id = proc[p].stranka_id)
                => /\ odgovor' = Odgovor("delete_stranka", "error", 0, 0)
                   /\ UNCHANGED <<stranke, lokacije, meritve, racuni>>
             /\ \A id \in LokacijaIds :
                   (/\ delete_lokacija_check(p, id)
                    /\ LokacijaObstaja(id)
                    /\ \E x \in meritve \cup racuni : x.lokacija_id = id)
                   => /\ odgovor' = Odgovor("delete_lokacija", "in_use", 0, 0)
                      /\ UNCHANGED <<stranke, lokacije, meritve, racuni, proc>>
             /\ (/\ delete_lokacija_commit(p)
                 /\ \E x \in meritve \cup racuni :
                       x.lokacija_id = proc[p].lokacija_id)
                => /\ odgovor' = Odgovor("delete_lokacija", "error", 0, 0)
                   /\ UNCHANGED <<stranke, lokacije, meritve, racuni>>
         ]_vars

\* a delete_lokacija that passed its checks was refused at the DELETE,
\* because a reading of the Lokacija was committed in between
C23_Witness ==
    /\ odgovor = Odgovor("delete_lokacija", "error", 0, 0)
    /\ \A p \in Procs : proc[p].pc = "idle"
    /\ \E m \in meritve : LokacijaObstaja(m.lokacija_id)
    /\ Cardinality(lokacije) = Cardinality(Lokacije)
    /\ nextLokacijaId = Cardinality(Lokacije) + 1

\* C24: an invoice that stays keeps its number, period and total, and a
\* line item keeps its consumption, price and amount and is not removed
\* while its invoice stays, whatever is ingested, replaced, deleted,
\* invoiced, generated or sent afterwards.
C24_IssuedInvoiceFrozen ==
    [][/\ \A r \in racuni, n \in racuni' :
             n.id = r.id => /\ n.skupni_znesek = r.skupni_znesek
                            /\ n.stevilka_racuna = r.stevilka_racuna
                            /\ n.lokacija_id = r.lokacija_id
                            /\ n.datum_od = r.datum_od
                            /\ n.datum_do = r.datum_do
       /\ \A po \in postavke :
             (\E n \in racuni' : n.id = po.racun_id) => po \in postavke'
       /\ \A po \in postavke' :
             (\E r \in racuni : r.id = po.racun_id) => po \in postavke
      ]_vars

\* an invoice was generated and sent, and a reading was written in its
\* period after it was issued: its total is that of its line items and
\* no longer that of the readings of the period
C24_Witness ==
    \E r \in racuni :
        /\ r.status = "POSLAN"
        /\ r.skupni_znesek = Vsota(PostavkeOf(r))
        /\ r.skupni_znesek #
              TotalAmount(LineItems(r.lokacija_id, r.datum_od, r.datum_do))

\* the number a sequence of digit characters writes
RECURSIVE Vrednost(_)
Vrednost(text) ==
    IF text = <<>> THEN 0
    ELSE 10 * Vrednost(SubSeq(text, 1, Len(text) - 1))
         + (CHOOSE d \in 0..9 : DigitChars[d + 1] = text[Len(text)])

\* C25: the number generate_invoice_number returns is the year, a hyphen
\* and six digits that write n + 1, where n is the number of persisted
\* invoices whose number starts with the year and a hyphen; the k-th
\* invoice committed with the prefix of a year carries the sequence k.
C25_InvoiceNumberFormat ==
    /\ [](\A i \in DOMAIN log :
             log[i][2] = Cardinality({j \in 1..i : log[j][1] = log[i][1]}))
    /\ [][\A p \in Procs, r \in InvoiceRequests :
             (create_invoice_calculate(p, r[1], r[2], r[3])
              /\ proc'[p].pc = "ci_flush")
             => LET text == StevilkaText(proc'[p].stevilka)
                    n == Cardinality({x \in racuni :
                            LikeLeto(StevilkaText(x.stevilka_racuna), leto)})
                IN  /\ Len(text) = 11
                    /\ Vrednost(SubSeq(text, 1, 4)) = leto
                    /\ text[5] = "-"
                    /\ Vrednost(SubSeq(text, 6, 11)) = n + 1
         ]_vars

\* the first invoice of 2026 is numbered 2026-000001 while an invoice of
\* 2025 is persisted
C25_Witness ==
    /\ \E r \in racuni :
          StevilkaText(r.stevilka_racuna)
             = <<"2", "0", "2", "6", "-", "0", "0", "0", "0", "0", "1">>
    /\ \E r \in racuni :
          StevilkaText(r.stevilka_racuna)
             = <<"2", "0", "2", "5", "-", "0", "0", "0", "0", "0", "1">>

C27_SentOnlyWithDocument ==
    /\ [](\A r \in racuni : r.status = "POSLAN" => r.pdf_pot # "NULL")
    /\ [][/\ \A r \in racuni, n \in racuni' :
                n.id = r.id => ~(r.status = "USTVARJEN" /\ n.status = "POSLAN")
          /\ \A p \in Procs, id \in 1..MaxRacuni, ready \in BOOLEAN :
                (/\ send_invoice_email_start(p, id, ready)
                 /\ \E r \in racuni : r.id = id /\ r.pdf_pot = "NULL")
                => /\ odgovor' = Odgovor("send_invoice_email", "error", 0, 0)
                   /\ UNCHANGED <<racuni, postavke, proc>>
         ]_vars

\* one invoice was generated and sent, and a send for the other, which
\* has no document, was refused
C27_Witness ==
    /\ odgovor = Odgovor("send_invoice_email", "error", 0, 0)
    /\ \A p \in Procs : proc[p].pc = "idle"
    /\ \E r \in racuni : r.status = "POSLAN" /\ r.pdf_pot = "pdf"
    /\ \E r \in racuni : r.status = "USTVARJEN" /\ r.pdf_pot = "NULL"

Zaracunana(m) == \E po \in postavke : po.meritev_id = m.id

\* C28: create_invoice does not leave out readings that an earlier
\* invoice already bills: a call whose period holds such a reading
\* succeeds, and the new invoice has a line item for every reading of the
\* Lokacija in its period, the billed ones included.
C28_BilledReadingsNotExcluded ==
    [][/\ \A r \in InvoiceRequests :
             LET okno == {m \in meritve : /\ m.lokacija_id = r[1]
                                          /\ m.casovni_zig >= Polnoc(r[2])
                                          /\ m.casovni_zig <= Polnoc(r[3])}
             IN  (/\ create_invoice_calculate(1, r[1], r[2], r[3])
                  /\ \E m \in okno : Zaracunana(m))
                 => /\ proc'[1].pc = "ci_flush"
                    /\ \A m \in okno :
                          \E it \in proc'[1].line_items : it.meritev_id = m.id
       /\ \A m \in meritve :
             (/\ Zaracunana(m)
              /\ \E it \in proc[1].line_items : it.meritev_id = m.id)
             => /\ create_invoice_flush(1) => proc'[1].pc = "ci_commit"
                /\ create_invoice_commit(1)
                   => /\ odgovor' = Odgovor("create_invoice", "ok", 1, 0)
                      /\ \A it \in proc[1].line_items :
                            \E po \in postavke' :
                               /\ po.racun_id = proc[1].racun_id
                               /\ po.meritev_id = it.meritev_id
      ]_vars

\* two invoices of one Lokacija each carry a line item for the same reading
C28_Witness ==
    \E a \in racuni, b \in racuni, m \in meritve :
       /\ a.id # b.id /\ a.lokacija_id = b.lokacija_id
       /\ m.lokacija_id = a.lokacija_id
       /\ \E po \in PostavkeOf(a) : po.meritev_id = m.id
       /\ \E po \in PostavkeOf(b) : po.meritev_id = m.id

\* C29: a create_bulk_meritve call that returns a result reports
\* success_count + error_count = number of submitted records, and the call
\* adds exactly success_count readings and removes none.
C29_BulkCountsAddUp ==
    [][\A r \in BulkRequests :
          (/\ create_bulk_meritve(r[1], r[2])
           /\ odgovor'.status = "ok")
          => /\ odgovor'.n_ok + odgovor'.n_err = Len(r[1])
             /\ meritve \subseteq meritve'
             /\ Cardinality(meritve' \ meritve) = odgovor'.n_ok
      ]_vars

\* a batch of two records with one key was answered with two successes,
\* and both are stored
C29_Witness ==
    /\ odgovor = Odgovor("create_bulk_meritve", "ok", 2, 0)
    /\ \E m \in meritve, n \in meritve :
          /\ m.id # n.id
          /\ m.lokacija_id = n.lokacija_id
          /\ m.casovni_zig = n.casovni_zig

\* C30: a CSV import with replace_existing that fails, at the DELETE or
\* after it, leaves every reading in place, those of the Lokacija
\* included, and reports failure with imported_count 0.
C30_ReplaceIsAtomic ==
    [][\A r \in AtomarnoCsv :
          (/\ import_csv_to_database(r[1], r[2], r[3])
           /\ r[3]
           /\ odgovor'.status # "ok")
          => /\ meritve' = meritve
             /\ odgovor'.op = "import_csv"
             /\ odgovor'.n_ok = 0
      ]_vars

\* a replacing import of one row for Lokacija 1 was refused at its
\* INSERT, after its DELETE, and the reading of the Lokacija is in place
C30_Witness ==
    /\ odgovor = Odgovor("import_csv", "error", 0, 1)
    /\ nextMeritevId = 3
    /\ \E m \in meritve : m.lokacija_id = 1

====
